---- MODULE Spec2Model ----
(***************************************************************************)
(* State-machine model of lenstronomy's AnalyticKinematics engine           *)
(* (GalKin/analytic_kinematics.py): the lazily built sigma_r2 interpolation *)
(* table, the caller-owned parameter dictionaries, the Hernquist scale      *)
(* resolution and the quadrature grid of the line-of-sight integral.        *)
(*                                                                          *)
(* Numbers.  Radii handed to the engine are integers in units of the        *)
(* smallest radius of the model; logarithms are taken in units of ln 2, so  *)
(* a radius 2^k has logarithm k, and grid points are exact rationals.       *)
(* Light-profile lengths (a, Rs, r_eff) are integers in thousandths, so     *)
(* that 0.551 * r_eff is the integer (551 * r_eff) \div 1000.               *)
(* Values of the external special functions (hyp_2F1, math.gamma, the       *)
(* light profile, the cosmology) are kept as terms over their arguments.    *)
(***************************************************************************)
EXTENDS Integers, Sequences, FiniteSets, TLC

VARIABLES
    interp_grid_num,     \* self._interp_grid_num  (construction time)
    log_int,             \* self._log_int          (construction time)
    memo,                \* self._interp_sigma_r2, or Absent (no attribute)
    kwargs_mass,         \* the caller's mass-parameter dictionary
    kwargs_light,        \* the caller's light-parameter dictionary
    kwargs_anisotropy,   \* the caller's anisotropy-parameter dictionary
    ret,                 \* the last engine call: operation, arguments, outcome
    afterDelete,         \* history: whether delete_cache ran with no memoized
                         \* query since, and the r_ani of the table it discarded
    thr,                 \* two callers on one engine: each caller's position in
                         \* _sigma_r2_interp or delete_cache, and its outcome
    useLock,             \* whether the callers guard each operation by a lock
    lock,                \* the caller holding the lock (0: free)
    bad,                 \* history: what went wrong so far
    basis                \* a LinearBasis: its profile_type_list, the caller's
                         \* kwargs_list, and what its operations returned on it

seqVars == << interp_grid_num, log_int, kwargs_mass, kwargs_light,
              kwargs_anisotropy, ret, afterDelete >>

----------------------------------------------------------------------------
(* Bounds of the model *)

\* interpol_grid_num ranges over 2..MaxGridNum
MaxGridNum == 4
\* theta_E, r_ani and the light lengths range over 1..MaxParam
MaxParam == 2
\* min_integrate = 2^MinIntegrateExp, max_integrate = 2^(MinIntegrateExp + SpanExp)
MinIntegrateExp == 1
SpanExp == 2

min_integrate == 2 ^ MinIntegrateExp
max_integrate == 2 ^ (MinIntegrateExp + SpanExp)
\* self._max_interpolate is set to max_integrate in __init__
max_interpolate == max_integrate

\* radii a caller passes: below, at, between, at and above the integration range
Radii == {0} \cup { 2 ^ e : e \in 0 .. (MinIntegrateExp + SpanExp + 1) }
\* 3d radii passed to sigma_r2 / sigma_s2 / grav_potential (positive)
Radii3d == { min_integrate, max_integrate }

GridNums == 2 .. MaxGridNum
Params == 1 .. MaxParam
Gammas == {2}
LightKeys == {"a", "Rs", "r_eff"}
LightLens == { 1000 * v : v \in Params }

----------------------------------------------------------------------------
(* Exact rationals num/den, den > 0 *)

Rat(n, d) == [num |-> n, den |-> d]
RInt(n) == Rat(n, 1)
RAdd(p, q) == Rat(p.num * q.den + q.num * p.den, p.den * q.den)
RSub(p, q) == Rat(p.num * q.den - q.num * p.den, p.den * q.den)
RMulInt(p, k) == Rat(p.num * k, p.den)
RDivInt(p, k) == Rat(p.num, p.den * k)
RLess(p, q) == p.num * q.den < q.num * p.den
REq(p, q) == p.num * q.den = q.num * p.den

RECURSIVE Gcd(_, _)
Gcd(x, y) == IF y = 0 THEN x ELSE Gcd(y, x % y)
Abs(x) == IF x < 0 THEN -x ELSE x
Reduce(p, g) == Rat(p.num \div g, p.den \div g)
\* lowest terms, so that equal numbers are equal values
RNorm(p) == Reduce(p, Gcd(Abs(p.num), p.den))

\* np.log of a power of two, in units of ln 2
RECURSIVE Log2(_)
Log2(x) == IF x <= 1 THEN 0 ELSE 1 + Log2(x \div 2)

\* A radius is num/den ("lin") or 2^(num/den) ("exp", what np.logspace returns)
Lin(q) == [kind |-> "lin", q |-> RNorm(q)]
Exp(q) == [kind |-> "exp", q |-> RNorm(q)]

----------------------------------------------------------------------------
(* numpy: arrays are sequences; Python indexes them from 0 *)

\* np.linspace(start, stop, num) for num >= 2
linspace(start, stop, num) ==
    [k \in 1 .. num |->
        RNorm(RAdd(start, RDivInt(RMulInt(RSub(stop, start), k - 1), num - 1)))]

ExpAll(e) == [k \in 1 .. Len(e) |-> Exp(e[k])]
\* np.logspace(start, stop, num): the exponentials of the linspace
logspace(start, stop, num) == ExpAll(linspace(start, stop, num))

\* whether r_array[i] (0-based) raises IndexError
IndexError(arr, i) == i >= Len(arr)
\* r_array[i] (0-based)
Item(arr, i) == arr[i + 1]

IsPow2(n) == n >= 1 /\ 2 ^ Log2(n) = n
\* one value for one radius: 2^k is written Exp(k)
Canon(r) ==
    IF r.kind = "lin" /\ r.q.den = 1 /\ IsPow2(r.q.num)
    THEN Exp(RInt(Log2(r.q.num)))
    ELSE r
LogOfCanon(c) == [log |-> IF c.kind = "exp" THEN "val" ELSE "ln", q |-> c.q]
\* np.log(r) in units of ln 2 ("val"); the logarithm of a radius that is no
\* power of two is kept as a term ("ln" of the number q)
NpLog(r) == LogOfCanon(Canon(r))

\* r > R, r = R as numbers, R a power of two
RadiusGreater(r, R) ==
    IF r.kind = "exp" THEN RLess(RInt(Log2(R)), r.q) ELSE RLess(RInt(R), r.q)
RadiusEqual(r, R) ==
    IF r.kind = "exp" THEN REq(RInt(Log2(R)), r.q) ELSE REq(RInt(R), r.q)

Max(x, y) == IF x >= y THEN x ELSE y

----------------------------------------------------------------------------
(* Parameter dictionaries: functions from the keys present to values *)

Absent == [built |-> FALSE]
NoValue == [f |-> "none"]

HasKey(d, k) == k \in DOMAIN d
\* d[k] = v, adding the key when it is missing
SetItem(d, k, v) == [x \in DOMAIN d \cup {k} |-> IF x = k THEN v ELSE d[x]]
\* d.pop(k)
Pop(d, k) == [x \in DOMAIN d \ {k} |-> d[x]]

\* equation (14): a term over its arguments (math.gamma, the cosmology)
_rho0_r0_gamma(theta_E, gamma) ==
    [f |-> "rho0_r0_gamma", theta_E |-> theta_E, gamma |-> gamma]

\* the scale resolution of draw_light; a is handed to draw_hernquist
draw_light(kl) ==
    IF ~HasKey(kl, "a")
    THEN IF HasKey(kl, "Rs")
         THEN [exc |-> "none", value |-> [f |-> "draw_hernquist", a |-> kl["Rs"]]]
         ELSE IF HasKey(kl, "r_eff")
              THEN [exc |-> "none",
                    value |-> [f |-> "draw_hernquist",
                               a |-> (551 * kl["r_eff"]) \div 1000]]
              ELSE [exc |-> "ValueError", value |-> NoValue]
    ELSE [exc |-> "none", value |-> [f |-> "draw_hernquist", a |-> kl["a"]]]

\* _read_out_params, the return: (a, gamma, rho0_r0_gamma, r_ani) read from
\* the dictionaries, and the mass dictionary as the call leaves it
ReadOutReturn(a, km, ka) ==
    [exc |-> "none", kwargs_mass |-> km, a |-> a, gamma |-> km["gamma"],
     rho0_r0_gamma |-> km["rho0_r0_gamma"], r_ani |-> ka["r_ani"]]

\* a _read_out_params that derives rho0_r0_gamma on every call
Mutant_ReadOutMass_rederives(a, km, ka) ==
    ReadOutReturn(a,
                  SetItem(km, "rho0_r0_gamma",
                          _rho0_r0_gamma(km["theta_E"], km["gamma"])),
                  ka)

\* _read_out_params, after a is resolved: rho0_r0_gamma is derived and written
\* into the mass dictionary when the key is missing
ReadOutMass(a, km, ka) ==
    ReadOutReturn(a,
                  IF ~HasKey(km, "rho0_r0_gamma")
                  THEN SetItem(km, "rho0_r0_gamma",
                               _rho0_r0_gamma(km["theta_E"], km["gamma"]))
                  ELSE km,
                  ka)

\* raise ValueError: nothing is returned, the mass dictionary is as it was
ReadOutRaise(km) ==
    [exc |-> "ValueError", kwargs_mass |-> km, a |-> 0, gamma |-> 0,
     rho0_r0_gamma |-> NoValue, r_ani |-> 0]

\* a _read_out_params that takes r_eff for the scale itself
Mutant_read_out_params_no_factor(km, kl, ka) ==
    IF ~HasKey(kl, "a")
    THEN IF HasKey(kl, "Rs") THEN ReadOutMass(kl["Rs"], km, ka)
         ELSE IF HasKey(kl, "r_eff") THEN ReadOutMass(kl["r_eff"], km, ka)
              ELSE ReadOutRaise(km)
    ELSE ReadOutMass(kl["a"], km, ka)

\* a _read_out_params that reads the mass parameters before the light ones
Mutant_read_out_params_mass_first(km, kl, ka) ==
    IF ~HasKey(kl, "a")
    THEN IF HasKey(kl, "Rs") THEN ReadOutMass(kl["Rs"], km, ka)
         ELSE IF HasKey(kl, "r_eff")
              THEN ReadOutMass((551 * kl["r_eff"]) \div 1000, km, ka)
              ELSE ReadOutRaise(ReadOutMass(0, km, ka).kwargs_mass)
    ELSE ReadOutMass(kl["a"], km, ka)

_read_out_params(km, kl, ka) ==
    IF ~HasKey(kl, "a")
    THEN IF HasKey(kl, "Rs") THEN ReadOutMass(kl["Rs"], km, ka)
         ELSE IF HasKey(kl, "r_eff")
              THEN ReadOutMass((551 * kl["r_eff"]) \div 1000, km, ka)
              ELSE ReadOutRaise(km)
    ELSE ReadOutMass(kl["a"], km, ka)

\* deepcopy(kwargs_light) with r_eff replaced by Rs and amp
kwargs_light_copy(kl) ==
    IF HasKey(kl, "r_eff")
    THEN Pop(SetItem(SetItem(kl, "Rs", (551 * kl["r_eff"]) \div 1000), "amp", 1),
             "r_eff")
    ELSE kl

\* the light-profile collaborator (Hernquist): the scale it evaluates with,
\* taken from the dictionary it is handed, a before Rs
LightScale(copy) == IF HasKey(copy, "a") THEN copy["a"] ELSE copy["Rs"]

----------------------------------------------------------------------------
(* The solvers.  An operation's result is a record: the exception raised    *)
(* ("none": it returned), the value returned, and the memo and the caller's *)
(* dictionaries as the call leaves them.                                    *)

\* equation (19): a term over its arguments (hyp_2F1, the cosmology)
_sigma_r2(r, a, gamma, rho0_r0_gamma, r_ani) ==
    [f |-> "sigma_r2", r |-> Canon(r), a |-> a, gamma |-> gamma,
     rho0_r0_gamma |-> rho0_r0_gamma, r_ani |-> r_ani]

\* interp1d(np.log(r_array), I_R_sigma2_array)
TableOver(r_array, a, gamma, rho0_r0_gamma, r_ani) ==
    [built |-> TRUE,
     x |-> [i \in 1 .. Len(r_array) |-> NpLog(r_array[i])],
     y |-> [i \in 1 .. Len(r_array) |->
              _sigma_r2(r_array[i], a, gamma, rho0_r0_gamma, r_ani)]]

\* the table _sigma_r2_interp builds when the attribute is missing
BuildTable(N, a, gamma, rho0_r0_gamma, r_ani) ==
    TableOver(logspace(RInt(Log2(min_integrate)), RInt(Log2(max_integrate)), N),
              a, gamma, rho0_r0_gamma, r_ani)

\* self._interp_sigma_r2(np.log(r)): the stored table applied at log r
InterpAt(table, r) ==
    [memo |-> table, value |-> [f |-> "interp", table |-> table, x |-> NpLog(r)]]

\* a _sigma_r2_interp that rebuilds the table on every call
Mutant_sigma_r2_interp_rebuilds(m, N, r, a, gamma, rho0_r0_gamma, r_ani) ==
    InterpAt(BuildTable(N, a, gamma, rho0_r0_gamma, r_ani), r)

\* _sigma_r2_interp: the memo after the call, and the value returned
_sigma_r2_interp(m, N, r, a, gamma, rho0_r0_gamma, r_ani) ==
    InterpAt(IF m = Absent
             THEN BuildTable(N, a, gamma, rho0_r0_gamma, r_ani)
             ELSE m,
             r)

\* (1 - beta * R**2 / r**2) * s, beta = beta_r(r, r_ani)
ProjectedBy(s, r, R, r_ani) ==
    [memo |-> s.memo,
     value |-> [f |-> "sigma_s2", r |-> Canon(r), R |-> R, r_ani |-> r_ani,
                sigma_r2 |-> s.value]]

_sigma_s2(m, N, r, R, r_ani, a, gamma, rho0_r0_gamma) ==
    ProjectedBy(_sigma_r2_interp(m, N, r, a, gamma, rho0_r0_gamma, r_ani),
                r, R, r_ani)

\* the integrand on the array r, the memo m2 being in place: per sample,
\* sigma_s2 * r / sqrt(r^2 - R^2) * light_3d(r, [kwargs_light_copy])
IntegrandValues(m2, p, N, r, R, copy) ==
    [exc |-> "none", memo |-> m2, kwargs_mass |-> p.kwargs_mass,
     value |-> [i \in 1 .. Len(r) |->
                  [sigma_s2 |-> _sigma_s2(m2, N, r[i], R, p.r_ani, p.a, p.gamma,
                                          p.rho0_r0_gamma).value,
                   r |-> r[i],
                   R |-> R,
                   light_3d |-> [f |-> "light_3d", r |-> r[i], kwargs |-> copy]]]]

\* _integrand_suyu10_eq21 after _read_out_params returned p: the vectorised
\* _sigma_s2 checks the memo once, for the whole array
IntegrandWith(p, m, N, r, R, copy) ==
    IF p.exc # "none"
    THEN [exc |-> p.exc, memo |-> m, kwargs_mass |-> p.kwargs_mass,
          value |-> << >>]
    ELSE IntegrandValues(_sigma_r2_interp(m, N, r[1], p.a, p.gamma,
                                          p.rho0_r0_gamma, p.r_ani).memo,
                         p, N, r, R, copy)

_integrand_suyu10_eq21(m, N, r, R, km, kl, ka) ==
    IntegrandWith(_read_out_params(km, kl, ka), m, N, r, R, kwargs_light_copy(kl))

\* dlog_r = np.log(r_array[2]) - np.log(r_array[1]); the integrand is
\* evaluated at r_array
LogSteps(r_array) ==
    IF IndexError(r_array, 2)
    THEN [exc |-> "IndexError", samples |-> << >>, step |-> RInt(0)]
    ELSE [exc |-> "none", samples |-> r_array,
          step |-> RNorm(RSub(Item(r_array, 2).q, Item(r_array, 1).q))]

LogSpaced(min_log, max_log, dlogr, N) ==
    LogSteps(logspace(RAdd(min_log, RDivInt(dlogr, 2)),
                      RAdd(max_log, RDivInt(dlogr, 2)), N))

\* the log branch of _I_R_sigma2
LogGrid(R, N) ==
    LogSpaced(RInt(Log2(R)), RInt(Log2(max_integrate)),
              RDivInt(RSub(RInt(Log2(max_integrate)), RInt(Log2(R))), N - 1), N)

\* a linear branch that evaluates the integrand at r_array itself
Mutant_LinShift_unshifted(r_array, dr) ==
    [exc |-> "none",
     samples |-> [k \in 1 .. Len(r_array) |-> Lin(r_array[k])],
     step |-> dr]

\* the integrand is evaluated at r_array + dr / 2.0
LinShift(r_array, dr) ==
    [exc |-> "none",
     samples |-> [k \in 1 .. Len(r_array) |-> Lin(RAdd(r_array[k], RDivInt(dr, 2)))],
     step |-> dr]

\* dr = r_array[2] - r_array[1]
LinSteps(r_array) ==
    IF IndexError(r_array, 2)
    THEN [exc |-> "IndexError", samples |-> << >>, step |-> RInt(0)]
    ELSE LinShift(r_array, RNorm(RSub(Item(r_array, 2), Item(r_array, 1))))

\* the linear branch of _I_R_sigma2
LinGrid(R, N) == LinSteps(linspace(RInt(R), RInt(max_interpolate), N))

\* (IR_sigma2, IR): 2 * np.sum(IR_sigma2_dr) and light_2d_finite(R, [copy])
IRReturn(g, ig, R, logint, kl, copy) ==
    IF ig.exc # "none"
    THEN [exc |-> ig.exc, memo |-> ig.memo, kwargs_mass |-> ig.kwargs_mass,
          kwargs_light |-> kl, value |-> NoValue]
    ELSE [exc |-> "none", memo |-> ig.memo, kwargs_mass |-> ig.kwargs_mass,
          kwargs_light |-> kl,
          value |-> [f |-> "I_R_sigma2", R |-> R, log |-> logint,
                     step |-> g.step, samples |-> g.samples,
                     integrand |-> ig.value,
                     IR |-> [f |-> "light_2d_finite", R |-> R, kwargs |-> copy]]]

\* _I_R_sigma2 with the grid g computed
IROnGrid(g, m, N, logint, R, km, kl, ka) ==
    IF g.exc # "none"
    THEN [exc |-> g.exc, memo |-> m, kwargs_mass |-> km, kwargs_light |-> kl,
          value |-> NoValue]
    ELSE IRReturn(g, _integrand_suyu10_eq21(m, N, g.samples, R, km, kl, ka),
                  R, logint, kl, kwargs_light_copy(kl))

\* _I_R_sigma2 with R clamped
IRClamped(R, m, N, logint, km, kl, ka) ==
    IROnGrid(IF logint THEN LogGrid(R, N) ELSE LinGrid(R, N),
             m, N, logint, R, km, kl, ka)

_I_R_sigma2(m, N, logint, R, km, kl, ka) ==
    IRClamped(Max(R, min_integrate), m, N, logint, km, kl, ka)

\* I_R_sigma2_and_IR (public)
I_R_sigma2_and_IR(m, N, logint, R, km, kl, ka) ==
    _I_R_sigma2(m, N, logint, R, km, kl, ka)

Sigma_s2With(p, m, N, r, R, kl) ==
    IF p.exc # "none"
    THEN [exc |-> p.exc, memo |-> m, kwargs_mass |-> p.kwargs_mass,
          kwargs_light |-> kl, value |-> NoValue]
    ELSE [exc |-> "none", kwargs_mass |-> p.kwargs_mass, kwargs_light |-> kl]
         @@ _sigma_s2(m, N, r, R, p.r_ani, p.a, p.gamma, p.rho0_r0_gamma)

\* sigma_s2 (public): (_sigma_s2(...), 1)
sigma_s2(m, N, r, R, km, kl, ka) ==
    Sigma_s2With(_read_out_params(km, kl, ka), m, N, Lin(RInt(r)), R, kl)

Sigma_r2With(p, m, r, kl) ==
    IF p.exc # "none"
    THEN [exc |-> p.exc, memo |-> m, kwargs_mass |-> p.kwargs_mass,
          kwargs_light |-> kl, value |-> NoValue]
    ELSE [exc |-> "none", memo |-> m, kwargs_mass |-> p.kwargs_mass,
          kwargs_light |-> kl,
          value |-> _sigma_r2(r, p.a, p.gamma, p.rho0_r0_gamma, p.r_ani)]

Mutant_Sigma_r2WithInterp(p, m, N, r, kl) ==
    IF p.exc # "none"
    THEN [exc |-> p.exc, memo |-> m, kwargs_mass |-> p.kwargs_mass,
          kwargs_light |-> kl, value |-> NoValue]
    ELSE [exc |-> "none", kwargs_mass |-> p.kwargs_mass, kwargs_light |-> kl]
         @@ _sigma_r2_interp(m, N, r, p.a, p.gamma, p.rho0_r0_gamma, p.r_ani)

\* a sigma_r2 that goes through the memoized solver
Mutant_sigma_r2_memoized(m, N, r, km, kl, ka) ==
    Mutant_Sigma_r2WithInterp(_read_out_params(km, kl, ka), m, N, Lin(RInt(r)), kl)

\* sigma_r2 (public): the closed form of equation (19)
sigma_r2(m, N, r, km, kl, ka) ==
    Sigma_r2With(_read_out_params(km, kl, ka), m, Lin(RInt(r)), kl)

\* grav_potential: a term over r, theta_E, gamma (SPP.mass_3d_lens, the cosmology)
grav_potential(m, r, km, kl) ==
    [exc |-> "none", memo |-> m, kwargs_mass |-> km, kwargs_light |-> kl,
     value |-> [f |-> "grav_potential", r |-> r, theta_E |-> km["theta_E"],
                gamma |-> km["gamma"]]]

\* a delete_cache that leaves the attribute in place
Mutant_delete_cache_keeps(m) == m

\* hasattr(self, "_interp_sigma_r2")
HasAttr(m) == m # Absent

\* a guard of delete_cache that is always passed
Mutant_DeleteGuard_always(m) == TRUE

\* delete_cache: if hasattr(self, "_interp_sigma_r2")
DeleteGuard(m) == HasAttr(m)

\* del self._interp_sigma_r2: AttributeError when the attribute is missing
DelAttr(m) ==
    IF HasAttr(m) THEN [exc |-> "none", memo |-> Absent]
    ELSE [exc |-> "AttributeError", memo |-> m]

\* self._interp_sigma_r2(...): AttributeError when the attribute is missing
ReadAttr(m) ==
    IF HasAttr(m) THEN [exc |-> "none", table |-> m]
    ELSE [exc |-> "AttributeError", table |-> Absent]

\* delete_cache: the memo after the call
delete_cache(m) == IF DeleteGuard(m) THEN DelAttr(m).memo ELSE m

----------------------------------------------------------------------------
(* One caller: every operation runs to completion before the next starts *)

concVars == << thr, useLock, lock, bad >>
engineVars == << memo, seqVars, concVars >>
vars == << engineVars, basis >>

MassDicts == { [theta_E |-> t, gamma |-> g] : t \in Params, g \in Gammas }
LightDicts == UNION { [S -> LightLens] : S \in SUBSET LightKeys }
AnisotropyDicts == { [r_ani |-> v] : v \in Params }
\* one dictionary of each kind, and the light dictionaries with at most one key
\* and one length
OneMass == { [theta_E |-> 1, gamma |-> 2] }
OneAnisotropy == { [r_ani |-> 1] }
FewLights == { d \in LightDicts :
                 Cardinality(DOMAIN d) <= 1 /\ \A k \in DOMAIN d : d[k] = 1000 }
ALight == { d \in FewLights : DOMAIN d \subseteq {"a"} }

NoDelete == [pending |-> FALSE, r_ani |-> 0]

\* no LinearBasis in use
NoBasis == [profile_type_list |-> << >>, kwargs_list |-> << >>]

\* the two callers of the concurrent specification
Threads == {1, 2}
IdleThread ==
    [pc |-> "idle", r_ani |-> 0, saw |-> FALSE, exc |-> "none", table |-> Absent]

Idle ==
    [op |-> "idle", r |-> 0, R |-> 0, exc |-> "none", value |-> NoValue,
     memo_before |-> Absent, mass_before |-> [theta_E |-> 0, gamma |-> 0],
     light_before |-> << >>, after_delete |-> NoDelete]

InitWith(Ns, Masses, Lights, Anisotropies) ==
    /\ interp_grid_num \in Ns
    /\ log_int \in BOOLEAN
    /\ memo = Absent
    /\ kwargs_mass \in Masses
    /\ kwargs_light \in Lights
    /\ kwargs_anisotropy \in Anisotropies
    /\ ret = Idle
    /\ afterDelete = NoDelete
    /\ thr = [t \in Threads |-> IdleThread]
    /\ useLock = FALSE
    /\ lock = 0
    /\ bad = {}
    /\ basis = NoBasis

\* the caller builds a new mass dictionary
CallerNewMass(Masses) ==
    /\ \E d \in Masses : kwargs_mass' = d
    /\ ret' = Idle
    /\ UNCHANGED << interp_grid_num, log_int, memo, kwargs_light,
                    kwargs_anisotropy, afterDelete, concVars, basis >>

\* the caller changes theta_E in its mass dictionary, in place
CallerSetThetaE ==
    /\ \E t \in Params : kwargs_mass' = SetItem(kwargs_mass, "theta_E", t)
    /\ ret' = Idle
    /\ UNCHANGED << interp_grid_num, log_int, memo, kwargs_light,
                    kwargs_anisotropy, afterDelete, concVars, basis >>

CallerNewLight(Lights) ==
    /\ \E d \in Lights : kwargs_light' = d
    /\ ret' = Idle
    /\ UNCHANGED << interp_grid_num, log_int, memo, kwargs_mass,
                    kwargs_anisotropy, afterDelete, concVars, basis >>

CallerNewAnisotropy(Anisotropies) ==
    /\ \E d \in Anisotropies : kwargs_anisotropy' = d
    /\ ret' = Idle
    /\ UNCHANGED << interp_grid_num, log_int, memo, kwargs_mass,
                    kwargs_light, afterDelete, concVars, basis >>

\* a call returns or raises: the engine's and the caller's state after it, and
\* the record of the call
Finish(op, r, R, res, memoized) ==
    /\ memo' = res.memo
    /\ kwargs_mass' = res.kwargs_mass
    /\ kwargs_light' = res.kwargs_light
    /\ ret' = [op |-> op, r |-> r, R |-> R, exc |-> res.exc, value |-> res.value,
               memo_before |-> memo, mass_before |-> kwargs_mass,
               light_before |-> kwargs_light, after_delete |-> afterDelete]
    /\ afterDelete' = IF memoized /\ res.exc = "none" THEN NoDelete ELSE afterDelete
    /\ UNCHANGED << interp_grid_num, log_int, kwargs_anisotropy, concVars, basis >>

CallSigma_r2 ==
    \E r \in Radii3d :
        Finish("sigma_r2", r, 0,
               sigma_r2(memo, interp_grid_num, r, kwargs_mass, kwargs_light,
                        kwargs_anisotropy),
               FALSE)

CallSigma_s2 ==
    \E r \in Radii3d, R \in Radii3d :
        /\ R <= r
        /\ Finish("sigma_s2", r, R,
                  sigma_s2(memo, interp_grid_num, r, R, kwargs_mass, kwargs_light,
                           kwargs_anisotropy),
                  TRUE)

CallI_R_sigma2_and_IR(Rs) ==
    \E R \in Rs :
        Finish("I_R_sigma2_and_IR", 0, R,
               I_R_sigma2_and_IR(memo, interp_grid_num, log_int, R, kwargs_mass,
                                 kwargs_light, kwargs_anisotropy),
               TRUE)

CallGrav_potential ==
    \E r \in Radii3d :
        Finish("grav_potential", r, 0,
               grav_potential(memo, r, kwargs_mass, kwargs_light), FALSE)

\* draw_light is static: it touches neither the engine nor the dictionaries
CallDraw_light ==
    Finish("draw_light", 0, 0,
           [memo |-> memo, kwargs_mass |-> kwargs_mass,
            kwargs_light |-> kwargs_light] @@ draw_light(kwargs_light),
           FALSE)

CallDelete_cache ==
    /\ memo' = delete_cache(memo)
    /\ ret' = [op |-> "delete_cache", r |-> 0, R |-> 0, exc |-> "none",
               value |-> NoValue, memo_before |-> memo,
               mass_before |-> kwargs_mass, light_before |-> kwargs_light,
               after_delete |-> afterDelete]
    /\ afterDelete' = [pending |-> TRUE,
                       r_ani |-> IF memo # Absent THEN memo.y[1].r_ani
                                 ELSE afterDelete.r_ani]
    /\ UNCHANGED << interp_grid_num, log_int, kwargs_mass, kwargs_light,
                    kwargs_anisotropy, concVars, basis >>

\* the engine's operations, with projected radii drawn from Rs
Call(Rs) ==
    \/ CallSigma_r2
    \/ CallSigma_s2
    \/ CallI_R_sigma2_and_IR(Rs)
    \/ CallGrav_potential
    \/ CallDraw_light
    \/ CallDelete_cache

\* Spec: the memo and the mass dictionary, over all mass and anisotropy
\* parameters
Init == InitWith(GridNums, MassDicts, FewLights, AnisotropyDicts)
Next ==
    \/ CallerNewMass(MassDicts)
    \/ CallerSetThetaE
    \/ CallerNewLight(FewLights)
    \/ CallerNewAnisotropy(AnisotropyDicts)
    \/ Call({min_integrate})
Spec == Init /\ [][Next]_vars

\* SpecLight: the scale resolution, over all light dictionaries
InitLight == InitWith({MaxGridNum}, OneMass, LightDicts, OneAnisotropy)
NextLight ==
    \/ CallerNewMass(OneMass)
    \/ CallerNewLight(LightDicts)
    \/ Call({min_integrate})
SpecLight == InitLight /\ [][NextLight]_vars

\* SpecGrid: the quadrature grid, over all grid counts, modes and radii
InitGrid == InitWith(GridNums, OneMass, ALight, OneAnisotropy)
NextGrid ==
    \/ CallerNewLight(ALight)
    \/ CallI_R_sigma2_and_IR(Radii)
    \/ CallDelete_cache
SpecGrid == InitGrid /\ [][NextGrid]_vars

----------------------------------------------------------------------------
(* Two callers on one engine.  A query is a sigma_s2 call on the caller's   *)
(* own dictionaries, which differ in r_ani; its steps on the engine are     *)
(* those of _sigma_r2_interp: the hasattr check, the assignment of the      *)
(* table built, the read of the attribute.  delete_cache is the hasattr     *)
(* check and the del.  With useLock a caller holds the lock from the start  *)
(* of an operation to its end.                                              *)

\* the table a caller with anisotropy radius r_ani builds
OwnTable(r_ani) ==
    BuildTable(interp_grid_num, 1000, 2, _rho0_r0_gamma(1, 2), r_ani)

Acquire(t) ==
    /\ useLock => lock = 0
    /\ lock' = IF useLock THEN t ELSE lock
Release == lock' = 0

BeginQuery(t) ==
    /\ thr[t].pc = "idle"
    /\ Acquire(t)
    /\ \E r_ani \in Params :
          thr' = [thr EXCEPT ![t] = [IdleThread EXCEPT !.pc = "check",
                                                       !.r_ani = r_ani]]
    /\ UNCHANGED << memo, seqVars, basis, useLock, bad >>

BeginDelete(t) ==
    /\ thr[t].pc = "idle"
    /\ Acquire(t)
    /\ thr' = [thr EXCEPT ![t] = [IdleThread EXCEPT !.pc = "del_check"]]
    /\ UNCHANGED << memo, seqVars, basis, useLock, bad >>

\* if not hasattr(self, "_interp_sigma_r2")
QueryCheck(t) ==
    /\ thr[t].pc = "check"
    /\ thr' = [thr EXCEPT ![t].saw = HasAttr(memo),
                          ![t].pc = IF HasAttr(memo) THEN "read" ELSE "build"]
    /\ UNCHANGED << memo, seqVars, basis, useLock, lock, bad >>

\* self._interp_sigma_r2 = interp1d(...)
QueryBuild(t) ==
    /\ thr[t].pc = "build"
    /\ memo' = OwnTable(thr[t].r_ani)
    /\ thr' = [thr EXCEPT ![t].pc = "read"]
    /\ UNCHANGED << seqVars, basis, useLock, lock, bad >>

\* what the read of the attribute adds to the history
ReadEvents(t, got) ==
    IF got.exc # "none" THEN {"read_absent"}
    ELSE IF ~thr[t].saw /\ got.table # OwnTable(thr[t].r_ani)
         THEN {"foreign_table"}
         ELSE {}

\* return self._interp_sigma_r2(np.log(r))
QueryRead(t) ==
    /\ thr[t].pc = "read"
    /\ thr' = [thr EXCEPT ![t].pc = "idle",
                          ![t].exc = ReadAttr(memo).exc,
                          ![t].table = ReadAttr(memo).table]
    /\ bad' = bad \cup ReadEvents(t, ReadAttr(memo))
    /\ Release
    /\ UNCHANGED << memo, seqVars, basis, useLock >>

\* if hasattr(self, "_interp_sigma_r2")
DeleteCheck(t) ==
    /\ thr[t].pc = "del_check"
    /\ thr' = [thr EXCEPT ![t].saw = DeleteGuard(memo),
                          ![t].pc = IF DeleteGuard(memo) THEN "del" ELSE "idle"]
    /\ lock' = IF DeleteGuard(memo) THEN lock ELSE 0
    /\ UNCHANGED << memo, seqVars, basis, useLock, bad >>

\* del self._interp_sigma_r2
DeleteDel(t) ==
    /\ thr[t].pc = "del"
    /\ memo' = DelAttr(memo).memo
    /\ thr' = [thr EXCEPT ![t].pc = "idle", ![t].exc = DelAttr(memo).exc]
    /\ bad' = bad \cup (IF DelAttr(memo).exc # "none" THEN {"del_absent"} ELSE {})
    /\ Release
    /\ UNCHANGED << seqVars, basis, useLock >>

InitConc ==
    /\ interp_grid_num = MaxGridNum
    /\ log_int = TRUE
    /\ memo = Absent
    /\ kwargs_mass \in OneMass
    /\ kwargs_light = [a |-> 1000]
    /\ kwargs_anisotropy \in OneAnisotropy
    /\ ret = Idle
    /\ afterDelete = NoDelete
    /\ thr = [t \in Threads |-> IdleThread]
    /\ useLock \in BOOLEAN
    /\ lock = 0
    /\ bad = {}
    /\ basis = NoBasis

NextConc ==
    \E t \in Threads :
        \/ BeginQuery(t)
        \/ BeginDelete(t)
        \/ QueryCheck(t)
        \/ QueryBuild(t)
        \/ QueryRead(t)
        \/ DeleteCheck(t)
        \/ DeleteDel(t)

SpecConc == InitConc /\ [][NextConc]_vars

----------------------------------------------------------------------------
(* LinearBasis: the linear amplitudes of a list of light models.  Python    *)
(* lists are sequences read 0-based through Item; a dictionary is a         *)
(* function from its keys; arrays are sequences.                            *)

\* profile_type_list and kwargs_list hold 1..MaxModels models
MaxModels == 2
\* a MULTI_GAUSSIAN has 1..MaxSigma sigma entries, and as many amp or fewer
\* or more within the same range
MaxSigma == 2
\* n_max of the shapelet kinds ranges over 0..MaxNMax
MaxNMax == 1
\* update_linear starts at index 0..MaxStart of the amplitude vector
MaxStart == 1

\* the kinds with one linear amplitude
SimpleKinds ==
    {"SERSIC", "SERSIC_ELLIPSE", "CORE_SERSIC", "HERNQUIST", "HERNQUIST_ELLIPSE",
     "PJAFFE", "PJAFFE_ELLIPSE", "GAUSSIAN", "GAUSSIAN_ELLIPSE", "POWER_LAW",
     "NIE", "CHAMELEON", "DOUBLE_CHAMELEON", "TRIPLE_CHAMELEON", "UNIFORM",
     "INTERPOL"}
MultiGaussianKinds == {"MULTI_GAUSSIAN", "MULTI_GAUSSIAN_ELLIPSE"}
ShapeletKinds == {"SHAPELETS", "SHAPELETS_POLAR", "SHAPELETS_POLAR_EXP"}

\* np.ones(num)
Ones(num) == [j \in 1 .. num |-> 1]

\* param[i:j] for 0 <= i <= j: clipped to the length of param
Slice(param, i, j) ==
    [x \in 1 .. ((IF j < Len(param) THEN j ELSE Len(param))
                 - (IF i < Len(param) THEN i ELSE Len(param))) |-> param[i + x]]

\* int((n_max+1)**2) for SHAPELETS_POLAR_EXP, int((n_max+1)*(n_max+2)/2) for
\* the other shapelet kinds
ShapeletCount(model, n_max) ==
    IF model = "SHAPELETS_POLAR_EXP"
    THEN (n_max + 1) ^ 2
    ELSE ((n_max + 1) * (n_max + 2)) \div 2

\* functions_split, MULTI_GAUSSIAN: num = len(kwargs_list[i]['amp'])
MultiGaussianSplitNum(kwargs) == Len(kwargs["amp"])

\* num_param_linear_list and update_linear, MULTI_GAUSSIAN:
\* len(kwargs_list[i]['sigma'])
MultiGaussianNum(kwargs) == Len(kwargs["sigma"])

\* functions_split, the body of the loop for model i with k None or k == i;
\* acc holds response (the collaborator calls that make it up) and n
SplitStep(model, kwargs, i, acc) ==
    IF model \in SimpleKinds
    THEN [exc |-> "none",
          response |-> Append(acc.response, [f |-> "function", i |-> i]),
          n |-> acc.n + 1]
    ELSE IF model \in MultiGaussianKinds
    THEN IF ~HasKey(kwargs, "amp")
         THEN [acc EXCEPT !.exc = "KeyError"]
         ELSE [exc |-> "none",
               response |-> Append(acc.response,
                                   [f |-> "function_split", i |-> i,
                                    amp |-> Ones(MultiGaussianSplitNum(kwargs))]),
               n |-> acc.n + MultiGaussianSplitNum(kwargs)]
    ELSE IF model \in ShapeletKinds
    THEN [exc |-> "none",
          response |-> Append(acc.response,
                              [f |-> "function_split", i |-> i,
                               amp |-> Ones(ShapeletCount(model, kwargs["n_max"]))]),
          n |-> acc.n + ShapeletCount(model, kwargs["n_max"])]
    ELSE [acc EXCEPT !.exc = "ValueError"]

\* functions_split, the loop from model i on; k < 0 stands for k = None
RECURSIVE SplitFrom(_, _, _, _, _)
SplitFrom(types, kwargs_list, k, i, acc) ==
    IF acc.exc # "none" \/ i >= Len(types) THEN acc
    ELSE SplitFrom(types, kwargs_list, k, i + 1,
                   IF k < 0 \/ k = i
                   THEN SplitStep(Item(types, i), Item(kwargs_list, i), i, acc)
                   ELSE acc)

functions_split(types, kwargs_list, k) ==
    SplitFrom(types, kwargs_list, k, 0,
              [exc |-> "none", response |-> << >>, n |-> 0])

\* num_param_linear_list, the body of the loop for model i
NumStep(model, kwargs, acc) ==
    IF model \in SimpleKinds
    THEN [acc EXCEPT !.n_list = Append(@, 1)]
    ELSE IF model \in MultiGaussianKinds
    THEN [acc EXCEPT !.n_list = Append(@, MultiGaussianNum(kwargs))]
    ELSE IF model \in ShapeletKinds
    THEN [acc EXCEPT !.n_list = Append(@, ShapeletCount(model, kwargs["n_max"]))]
    ELSE [acc EXCEPT !.exc = "ValueError"]

RECURSIVE NumFrom(_, _, _, _)
NumFrom(types, kwargs_list, i, acc) ==
    IF acc.exc # "none" \/ i >= Len(types) THEN acc
    ELSE NumFrom(types, kwargs_list, i + 1,
                 NumStep(Item(types, i), Item(kwargs_list, i), acc))

num_param_linear_list(types, kwargs_list) ==
    NumFrom(types, kwargs_list, 0, [exc |-> "none", n_list |-> << >>])

\* kwargs_list[k]['amp'] = amp; i += num
UpdAssign(acc, k, amp, num) ==
    [exc |-> "none",
     kwargs_list |-> [acc.kwargs_list EXCEPT ![k + 1] = SetItem(@, "amp", amp)],
     i |-> acc.i + num]

\* update_linear, the body of the loop for model k; acc holds kwargs_list
\* (changed in place) and the index i
UpdStep(model, param, k, acc) ==
    IF model \in SimpleKinds
    THEN IF IndexError(param, acc.i)
         THEN [acc EXCEPT !.exc = "IndexError"]
         ELSE UpdAssign(acc, k, Item(param, acc.i), 1)
    ELSE IF model \in MultiGaussianKinds
    THEN UpdAssign(acc, k,
                   Slice(param, acc.i,
                         acc.i + MultiGaussianNum(Item(acc.kwargs_list, k))),
                   MultiGaussianNum(Item(acc.kwargs_list, k)))
    ELSE IF model \in ShapeletKinds
    THEN UpdAssign(acc, k,
                   Slice(param, acc.i,
                         acc.i + ShapeletCount(model,
                                               Item(acc.kwargs_list, k)["n_max"])),
                   ShapeletCount(model, Item(acc.kwargs_list, k)["n_max"]))
    ELSE [acc EXCEPT !.exc = "ValueError"]

RECURSIVE UpdFrom(_, _, _, _)
UpdFrom(types, param, k, acc) ==
    IF acc.exc # "none" \/ k >= Len(types) THEN acc
    ELSE UpdFrom(types, param, k + 1, UpdStep(Item(types, k), param, k, acc))

update_linear(types, param, i, kwargs_list) ==
    UpdFrom(types, param, 0, [exc |-> "none", kwargs_list |-> kwargs_list, i |-> i])

\* the kinds the lists are drawn from: one of each branch, and one that is
\* not supported
Kinds == {"SERSIC", "MULTI_GAUSSIAN", "SHAPELETS", "SHAPELETS_POLAR_EXP", "NONE"}

\* the dictionaries a caller hands over for a kind; amp need not be there
\* before the amplitudes are solved for
KwargsFor(model) ==
    IF model \in MultiGaussianKinds
    THEN { [sigma |-> Ones(ns)] : ns \in 1 .. MaxSigma }
            \cup { [sigma |-> Ones(ns), amp |-> Ones(na)] :
                     ns \in 1 .. MaxSigma, na \in 1 .. MaxSigma }
    ELSE IF model \in ShapeletKinds
    THEN { [n_max |-> n] : n \in 0 .. MaxNMax }
    ELSE { [center_x |-> 0] }

TypeLists == UNION { [1 .. n -> Kinds] : n \in 1 .. MaxModels }
KwargsLists(types) ==
    { kl \in [DOMAIN types -> UNION { KwargsFor(m) : m \in Kinds }] :
        \A j \in DOMAIN types : kl[j] \in KwargsFor(types[j]) }

\* the largest number of amplitudes of one model
MaxCount == Max((MaxNMax + 1) ^ 2, MaxSigma)
\* the amplitude vector: long enough for every list, entry i (0-based) is i
AmplitudeVector == [j \in 1 .. (MaxStart + MaxModels * MaxCount) |-> j - 1]

NotRun == [exc |-> "not run"]

\* the results kept are those on the kwargs_list as it is now
Fresh(b) ==
    IF b.on = b.kwargs_list THEN b
    ELSE [b EXCEPT !.on = b.kwargs_list, !.split = NotRun, !.n_list = NotRun,
                   !.upd = NotRun]

SplitResult(k, res) == [exc |-> res.exc, k |-> k, n |-> res.n]

CallFunctions_split ==
    /\ \E k \in -1 .. (Len(basis.profile_type_list) - 1) :
          basis' = [Fresh(basis) EXCEPT
                      !.split = SplitResult(k,
                                    functions_split(basis.profile_type_list,
                                                    basis.kwargs_list, k))]
    /\ UNCHANGED engineVars

CallNum_param_linear_list ==
    /\ basis' = [Fresh(basis) EXCEPT
                   !.n_list = num_param_linear_list(basis.profile_type_list,
                                                    basis.kwargs_list)]
    /\ UNCHANGED engineVars

\* update_linear changes the caller's dictionaries in place, also when it
\* raises later in the loop
UpdResult(i, res) ==
    [Fresh(basis) EXCEPT !.kwargs_list = res.kwargs_list,
                         !.upd = [exc |-> res.exc, start |-> i, i |-> res.i,
                                  kwargs_list |-> res.kwargs_list]]

CallUpdate_linear ==
    /\ \E i \in 0 .. MaxStart :
          basis' = UpdResult(i, update_linear(basis.profile_type_list,
                                              AmplitudeVector, i,
                                              basis.kwargs_list))
    /\ UNCHANGED engineVars

InitBasis ==
    /\ interp_grid_num = MaxGridNum
    /\ log_int = TRUE
    /\ memo = Absent
    /\ kwargs_mass \in OneMass
    /\ kwargs_light = [a |-> 1000]
    /\ kwargs_anisotropy \in OneAnisotropy
    /\ ret = Idle
    /\ afterDelete = NoDelete
    /\ thr = [t \in Threads |-> IdleThread]
    /\ useLock = FALSE
    /\ lock = 0
    /\ bad = {}
    /\ \E types \in TypeLists :
          \E kl \in KwargsLists(types) :
             basis = [profile_type_list |-> types, kwargs_list |-> kl, on |-> kl,
                      split |-> NotRun, n_list |-> NotRun, upd |-> NotRun]

NextBasis ==
    \/ CallFunctions_split
    \/ CallNum_param_linear_list
    \/ CallUpdate_linear

SpecBasis == InitBasis /\ [][NextBasis]_vars

----------------------------------------------------------------------------
(* What the claims speak of *)

Memoized == {"sigma_s2", "I_R_sigma2_and_IR"}
Readers == {"sigma_r2", "sigma_s2", "I_R_sigma2_and_IR"}

\* the last call went through the memoized solver and returned
MemoizedReturned == ret.op \in Memoized /\ ret.exc = "none"

\* the tables the values of the last (memoized, returned) call were read from
TablesUsed ==
    IF ret.op = "sigma_s2"
    THEN { ret.value.sigma_r2.table }
    ELSE { ret.value.integrand[i].sigma_s2.sigma_r2.table :
             i \in DOMAIN ret.value.integrand }

\* the scale a dictionary with a single key stands for
ClaimedScale(kl) ==
    IF DOMAIN kl = {"r_eff"} THEN (551 * kl["r_eff"]) \div 1000
    ELSE IF DOMAIN kl = {"Rs"} THEN kl["Rs"]
    ELSE kl["a"]

\* the table of the last call's own parameters (the dictionaries as the call
\* left them; single-key light dictionaries)
TableOfThisCall ==
    BuildTable(interp_grid_num, ClaimedScale(kwargs_light), kwargs_mass["gamma"],
               kwargs_mass["rho0_r0_gamma"], kwargs_anisotropy["r_ani"])

\* the last call raised before it reached the memoized solver: no scale in the
\* light dictionary (ValueError), or r_array[2] on a grid of fewer than three
\* points (IndexError, I_R_sigma2_and_IR only)
RaisedBeforeSolver ==
    \/ ret.exc = "ValueError" /\ DOMAIN kwargs_light \cap LightKeys = {}
    \/ ret.exc = "IndexError" /\ ret.op = "I_R_sigma2_and_IR" /\ interp_grid_num < 3

(***************************************************************************)
(* C1: the memo is built by the first query that goes through the memoized *)
(* solver (sigma_s2 or I_R_sigma2_and_IR) from that query's                *)
(* (a, gamma, rho0_r0_gamma, r_ani); once present it is left as it is by   *)
(* every call but delete_cache, and a later query that goes through the    *)
(* solver, whatever its parameters, returns values read from that same     *)
(* table: the only exceptions are those raised before the solver is        *)
(* reached.                                                                *)
(***************************************************************************)
C1_MemoBuiltOnceAndReused ==
    /\ (MemoizedReturned /\ ret.memo_before = Absent)
          => (memo = TableOfThisCall /\ TablesUsed = {memo})
    /\ (ret.op \in Memoized /\ ret.memo_before # Absent)
          => /\ memo = ret.memo_before
             /\ \/ ret.exc = "none" /\ TablesUsed = {ret.memo_before}
                \/ RaisedBeforeSolver
    /\ (ret.op \notin {"idle", "delete_cache"} /\ ret.memo_before # Absent)
          => memo = ret.memo_before
    /\ (ret.op \notin Memoized \cup {"idle"})
          => (memo = Absent \/ memo = ret.memo_before)

\* a memoized query returned values of a table built for another r_ani
C1_Witness ==
    /\ MemoizedReturned
    /\ ret.memo_before # Absent
    /\ ret.memo_before # TableOfThisCall
    /\ ret.memo_before.y[1].r_ani # kwargs_anisotropy["r_ani"]
    /\ TablesUsed = {ret.memo_before}

(***************************************************************************)
(* C2: the first memoized query after delete_cache rebuilds the table from *)
(* its own parameters, and what it returns is read from that table alone,  *)
(* whatever table was discarded.                                           *)
(***************************************************************************)
C2_RebuildAfterDelete ==
    (MemoizedReturned /\ ret.after_delete.pending)
        => /\ memo = TableOfThisCall
           /\ TablesUsed = {TableOfThisCall}
           /\ ret.op = "sigma_s2" =>
                ret.value = [f |-> "sigma_s2", r |-> Exp(RInt(Log2(ret.r))),
                             R |-> ret.R, r_ani |-> kwargs_anisotropy["r_ani"],
                             sigma_r2 |-> [f |-> "interp", table |-> TableOfThisCall,
                                           x |-> [log |-> "val",
                                                  q |-> RInt(Log2(ret.r))]]]

\* delete_cache discarded a table of another r_ani, and the query after it
\* returned
C2_Witness ==
    /\ MemoizedReturned
    /\ ret.after_delete.pending
    /\ ret.after_delete.r_ani \notin {0, kwargs_anisotropy["r_ani"]}
    /\ memo.y[1].r_ani = kwargs_anisotropy["r_ani"]

\* the light dictionary of the last call holds none of a, Rs, r_eff
NoScale == DOMAIN ret.light_before \cap LightKeys = {}

\* the scales the keys present stand for
Candidates(kl) ==
    { kl[k] : k \in DOMAIN kl \cap {"a", "Rs"} }
        \cup { (551 * kl[k]) \div 1000 : k \in DOMAIN kl \cap {"r_eff"} }

\* the scale the last (returned) call resolved, where the result shows it
ScalesResolved ==
    IF ret.op \in {"draw_light", "sigma_r2"} THEN { ret.value.a }
    ELSE IF ret.op = "sigma_s2" /\ ret.memo_before = Absent THEN { memo.y[1].a }
    ELSE {}

(***************************************************************************)
(* C3: draw_light and _read_out_params resolve the Hernquist scale from    *)
(* exactly one of the keys present: {Rs: x} gives a = x, {r_eff: x} gives  *)
(* a = 0.551 x, {a: x} gives a = x; with none of the three keys they raise *)
(* ValueError.                                                             *)
(***************************************************************************)
C3_ScaleResolution ==
    ret.op \in {"draw_light", "sigma_r2", "sigma_s2"} =>
        /\ NoScale => ret.exc = "ValueError"
        /\ ~NoScale =>
              /\ ret.exc = "none"
              /\ ScalesResolved \subseteq Candidates(ret.light_before)
              /\ Cardinality(DOMAIN ret.light_before) = 1
                    => ScalesResolved \subseteq {ClaimedScale(ret.light_before)}

\* {r_eff: 2.0} resolved to a = 1.102 by _read_out_params
C3_Witness ==
    /\ ret.op = "sigma_r2"
    /\ ret.exc = "none"
    /\ DOMAIN ret.light_before = {"r_eff"}
    /\ ret.light_before["r_eff"] = 2000
    /\ ret.value.a = 1102

\* the rho0_r0_gamma the last (returned) call computed with, where the result
\* shows it
Rho0Used ==
    IF ret.op = "sigma_r2" THEN { ret.value.rho0_r0_gamma }
    ELSE IF ret.memo_before = Absent
         THEN { memo.y[i].rho0_r0_gamma : i \in DOMAIN memo.y }
         ELSE {}

(***************************************************************************)
(* C4: a returning sigma_r2, sigma_s2 or I_R_sigma2_and_IR call on a mass  *)
(* dictionary without rho0_r0_gamma writes the value derived from its      *)
(* (theta_E, gamma) into it; a call on a dictionary that has the key uses  *)
(* the stored value and leaves the dictionary as it is; and no operation   *)
(* changes any other key of the mass dictionary or the light dictionary.   *)
(***************************************************************************)
C4_Rho0DerivedOnceOnlyWrite ==
    /\ (ret.op \in Readers /\ ret.exc = "none"
            /\ ~HasKey(ret.mass_before, "rho0_r0_gamma"))
          => kwargs_mass =
                SetItem(ret.mass_before, "rho0_r0_gamma",
                        [f |-> "rho0_r0_gamma",
                         theta_E |-> ret.mass_before["theta_E"],
                         gamma |-> ret.mass_before["gamma"]])
    /\ (ret.op \in Readers /\ HasKey(ret.mass_before, "rho0_r0_gamma"))
          => /\ kwargs_mass = ret.mass_before
             /\ ret.exc = "none"
                   => Rho0Used \subseteq {ret.mass_before["rho0_r0_gamma"]}
    /\ ret.op # "idle"
          => /\ DOMAIN kwargs_mass \ {"rho0_r0_gamma"} = DOMAIN ret.mass_before \ {"rho0_r0_gamma"}
             /\ \A k \in DOMAIN ret.mass_before : kwargs_mass[k] = ret.mass_before[k]
             /\ kwargs_light = ret.light_before

\* the stored rho0_r0_gamma was derived for another theta_E, and was used
C4_Witness ==
    /\ ret.op = "sigma_r2"
    /\ ret.exc = "none"
    /\ HasKey(ret.mass_before, "rho0_r0_gamma")
    /\ ret.mass_before["rho0_r0_gamma"].theta_E # ret.mass_before["theta_E"]
    /\ ret.value.rho0_r0_gamma = ret.mass_before["rho0_r0_gamma"]
    /\ kwargs_mass = ret.mass_before

(***************************************************************************)
(* C5: sigma_r2 and grav_potential leave the memo as it is, absent, built  *)
(* or stale, and their result is the closed form of the call's arguments.  *)
(***************************************************************************)
C5_ClosedFormNoCaching ==
    /\ ret.op \in {"sigma_r2", "grav_potential"} => memo = ret.memo_before
    /\ (ret.op = "sigma_r2" /\ ret.exc = "none")
          => ret.value =
                [f |-> "sigma_r2", r |-> Exp(RInt(Log2(ret.r))),
                 a |-> ClaimedScale(ret.light_before),
                 gamma |-> ret.mass_before["gamma"],
                 rho0_r0_gamma |->
                     IF HasKey(ret.mass_before, "rho0_r0_gamma")
                     THEN ret.mass_before["rho0_r0_gamma"]
                     ELSE [f |-> "rho0_r0_gamma",
                           theta_E |-> ret.mass_before["theta_E"],
                           gamma |-> ret.mass_before["gamma"]],
                 r_ani |-> kwargs_anisotropy["r_ani"]]
    /\ ret.op = "grav_potential"
          => (ret.exc = "none"
              /\ ret.value = [f |-> "grav_potential", r |-> ret.r,
                              theta_E |-> ret.mass_before["theta_E"],
                              gamma |-> ret.mass_before["gamma"]])

\* sigma_r2 returned while the memo held a table of other parameters
C5_Witness ==
    /\ ret.op = "sigma_r2"
    /\ ret.exc = "none"
    /\ memo # Absent
    /\ memo # TableOfThisCall
    /\ ret.value.f = "sigma_r2"

AggregatorReturned == ret.op = "I_R_sigma2_and_IR" /\ ret.exc = "none"

\* the ends of the integration range, R clamped and max_integrate, on the axis
\* the grid is laid on (log r in log mode, r in linear mode)
GridLo == IF ret.value.log THEN Log2(ret.value.R) ELSE ret.value.R
GridHi == IF ret.value.log THEN Log2(max_integrate) ELSE max_integrate

(***************************************************************************)
(* C7: for every interpol_grid_num > 1, 2 included, and in both modes,     *)
(* I_R_sigma2_and_IR with a resolvable light dictionary returns the pair   *)
(* (I(R)*sigma^2, I(R)) and does not raise.                                *)
(***************************************************************************)
C7_EveryGridCountAboveOneReturns ==
    (ret.op = "I_R_sigma2_and_IR" /\ ~NoScale /\ interp_grid_num > 1)
        => (ret.exc = "none" /\ ret.value.f = "I_R_sigma2")

(***************************************************************************)
(* C8: for every R, clamped to at least min_integrate, and in both modes,  *)
(* every radius r at which the integrand is evaluated satisfies r > R.     *)
(***************************************************************************)
C8_SamplesStrictlyAboveR ==
    AggregatorReturned
        => \A i \in DOMAIN ret.value.samples :
              RadiusGreater(ret.value.samples[i], ret.value.R)

(***************************************************************************)
(* C9 as claimed: the N steps sum to max_integrate - R (log mode: to       *)
(* log(max_integrate) - log(R)), and no sample lies beyond max_integrate.  *)
(***************************************************************************)
C9_WeightsSumToRange ==
    AggregatorReturned
        => /\ REq(RMulInt(ret.value.step, interp_grid_num), RInt(GridHi - GridLo))
           /\ \A i \in DOMAIN ret.value.samples :
                 ~RadiusGreater(ret.value.samples[i], max_integrate)

(***************************************************************************)
(* What the code computes where C9 fails: with N samples the step is       *)
(* (max_integrate - R)/(N - 1) (log mode: the same in log r), sample i of  *)
(* 1..N lies at R + (i - 1/2) step, so the N steps sum to                  *)
(* (max_integrate - R) N/(N - 1): the quadrature runs from R to            *)
(* max_integrate + step.  For R < max_integrate the last sample, at        *)
(* max_integrate + step/2, lies beyond max_integrate and all others below. *)
(***************************************************************************)
C9_WeightsSumOneStepBeyond ==
    AggregatorReturned
        => /\ Len(ret.value.samples) = interp_grid_num
           /\ REq(RMulInt(ret.value.step, interp_grid_num - 1),
                  RInt(GridHi - GridLo))
           /\ \A i \in DOMAIN ret.value.samples :
                 /\ ret.value.samples[i].kind = IF ret.value.log THEN "exp" ELSE "lin"
                 /\ REq(ret.value.samples[i].q,
                        RAdd(RInt(GridLo),
                             RDivInt(RMulInt(ret.value.step, 2 * i - 1), 2)))
           /\ ret.value.R < max_integrate
                 => \A i \in DOMAIN ret.value.samples :
                       RadiusGreater(ret.value.samples[i], max_integrate)
                           <=> i = interp_grid_num

\* a returned quadrature over R < max_integrate whose last sample lies
\* beyond max_integrate
C9_Witness ==
    /\ AggregatorReturned
    /\ ret.value.R < max_integrate
    /\ ~ret.value.log
    /\ RadiusGreater(ret.value.samples[interp_grid_num], max_integrate)
    /\ RLess(RInt(max_integrate - ret.value.R),
             RMulInt(ret.value.step, interp_grid_num))

(***************************************************************************)
(* C6: with two callers on one engine and no mutual exclusion, a query     *)
(* that passed the hasattr check reads the attribute after a concurrent    *)
(* delete_cache removed it, and a query that found the memo absent returns *)
(* values of the table the other caller built; with every operation under  *)
(* a lock neither happens, nor does a del of a missing attribute.          *)
(***************************************************************************)
C6_SafeUnderMutualExclusion == useLock => bad = {}

\* without the lock both have happened
C6_Witness ==
    /\ ~useLock
    /\ {"read_absent", "foreign_table"} \subseteq bad

\* the scales the light profile evaluated with in the last (returned)
\* I_R_sigma2_and_IR call all equal a
LightScalesAre(a) ==
    /\ LightScale(ret.value.IR.kwargs) = a
    /\ \A i \in DOMAIN ret.value.integrand :
          LightScale(ret.value.integrand[i].light_3d.kwargs) = a

(***************************************************************************)
(* C11: within one I_R_sigma2_and_IR call the Hernquist scale handed to    *)
(* the light profile, for light_3d in the integrand and for                *)
(* light_2d_finite, is the scale a that _read_out_params resolves for the  *)
(* dispersion solver, for every light dictionary that resolves, those with *)
(* more than one of the keys a, Rs, r_eff included.                        *)
(***************************************************************************)
C11_LightScaleIsResolvedScale ==
    AggregatorReturned
        => LightScalesAre(_read_out_params(ret.mass_before, ret.light_before,
                                           kwargs_anisotropy).a)

\* the same for light dictionaries with one key only
C11_SingleKeyScalesAgree ==
    (AggregatorReturned /\ Cardinality(DOMAIN ret.light_before) = 1)
        => LightScalesAre(_read_out_params(ret.mass_before, ret.light_before,
                                           kwargs_anisotropy).a)

\* np.sum(n_list)
RECURSIVE Sum(_)
Sum(n_list) == IF n_list = << >> THEN 0 ELSE Head(n_list) + Sum(Tail(n_list))

\* every kind of the list is one the three operations support
Supported ==
    \A j \in DOMAIN basis.profile_type_list :
       basis.profile_type_list[j] \in SimpleKinds \cup MultiGaussianKinds
                                        \cup ShapeletKinds

\* functions_split with k = None, num_param_linear_list, update_linear have
\* returned on the same kwargs_list
SplitReturned == basis.split.exc = "none" /\ basis.split.k < 0
NumReturned == basis.n_list.exc = "none"
UpdateReturned == basis.upd.exc = "none"

\* the amplitudes update_linear stored for model j (1-based), as a sequence
AmpEntries(j) ==
    IF basis.profile_type_list[j] \in SimpleKinds
    THEN << basis.upd.kwargs_list[j]["amp"] >>
    ELSE basis.upd.kwargs_list[j]["amp"]

\* update_linear moved the index by the sum of n_list and gave model j the
\* n_list[j] entries that follow those of the models before it
UpdateFollows(n_list) ==
    /\ basis.upd.i - basis.upd.start = Sum(n_list)
    /\ \A j \in DOMAIN n_list :
          AmpEntries(j) = [x \in 1 .. n_list[j] |->
                             Item(AmplitudeVector,
                                  basis.upd.start + Sum(SubSeq(n_list, 1, j - 1))
                                      + x - 1)]

(***************************************************************************)
(* C12: for every list of supported kinds and every kwargs_list, the n of  *)
(* functions_split with k = None equals the sum of num_param_linear_list   *)
(* and equals the number of entries update_linear consumes (returned index *)
(* minus starting index), each model receiving the consecutive slice whose *)
(* length is its entry of num_param_linear_list.                           *)
(***************************************************************************)
C12_LinearCountsAgree ==
    Supported =>
        /\ (SplitReturned /\ NumReturned)
              => basis.split.n = Sum(basis.n_list.n_list)
        /\ (SplitReturned /\ UpdateReturned)
              => basis.split.n = basis.upd.i - basis.upd.start
        /\ (NumReturned /\ UpdateReturned) => UpdateFollows(basis.n_list.n_list)

\* the part of C12 between num_param_linear_list and update_linear
C12_UpdateFollowsNumParamLinear ==
    (Supported /\ NumReturned /\ UpdateReturned)
        => UpdateFollows(basis.n_list.n_list)

\* num_param_linear_list and update_linear have both returned on a list of two
\* models, the second a MULTI_GAUSSIAN with two sigma
C12_UpdateFollowsWitness ==
    /\ Supported /\ NumReturned /\ UpdateReturned
    /\ Len(basis.profile_type_list) = 2
    /\ basis.profile_type_list[2] = "MULTI_GAUSSIAN"
    /\ basis.n_list.n_list[2] = 2

====
